---- MODULE Spec2Model ----
(***************************************************************************)
(* A model of src/App.py: the Wikipedia search window (WikiSearchApp), the *)
(* fetcher (WikiAPIAgent) and the HTML-to-text extractor (WikiHTMLParser). *)
(*                                                                         *)
(* Strings.  A Python str is a sequence of fragments.  Text that the code  *)
(* inspects character by character (markup, topics, extracted text) is a   *)
(* sequence of one-character strings; a string literal of the code that is *)
(* only ever concatenated or displayed is one fragment.  Markup is a       *)
(* sequence of symbols: one-character strings and whole tags ("<p>",       *)
(* "</sup>"), the units html.parser hands to the handlers.  The bilingual  *)
(* literals of the code keep their English half (the module is ASCII); the *)
(* Ukrainian half is constant text after " | ", transliterated where the   *)
(* literal would otherwise coincide with another one of the code.          *)
(*                                                                         *)
(* Two specifications share the definitions of the parser's handlers:      *)
(*   Spec         the window: user input and perform_search, whole-handler *)
(*                steps, the network's answer drawn from Responses;        *)
(*   SpecExtract  one WikiHTMLParser fed one markup string, one handler    *)
(*                call per step, then get_text.                            *)
(***************************************************************************)
EXTENDS Naturals, Sequences, FiniteSets, TLC

VARIABLES
    \* ---- the window (WikiSearchApp) --------------------------------------
    search_var,        \* self.search_var: the topic entry's text
    language_var,      \* self.language_var: the language selector
    full_article_var,  \* self.full_article_var: the checkbox
    status_var,        \* self.status_var: the status line
    result_text,       \* self.result_text: the result pane's content
    \* ---- what the last handler did (history) -----------------------------
    last,              \* the last event: "init", "input" or "perform_search"
    calls,             \* the WikiAPIAgent calls made by the last perform_search
    dialog,            \* the warning dialog shown by the last perform_search
    response,          \* the network's answer to the last perform_search's request
    outcome,           \* how the fetch of the last perform_search ended
    propagated,        \* the exception that left the last perform_search
    first,             \* the first get_full_article call that extracted: html, text,
                       \* and whether a later call has extracted too
    \* ---- a WikiHTMLParser and the markup it is fed -----------------------
    parser,            \* the parser object: [text, current_tag]
    html,              \* the markup given to feed
    rawdata,           \* the symbols feed has not yet handled
    output,            \* what get_text returned
    pc,                \* "idle", "feeding" or "done"
    ev                 \* the last handler call: op, arg, and at its entry the last
                       \* start tag of the markup handled so far and Len(text)

appvars == <<search_var, language_var, full_article_var, status_var, result_text,
             last, calls, dialog, response, outcome, propagated, first>>
exvars  == <<html, rawdata, output, pc, ev>>
vars    == <<appvars, parser, exvars>>

\* The longest markup string SpecExtract enumerates, in symbols.
MaxLen == 4

-----------------------------------------------------------------------------
(* Python's None, and str methods on sequences of characters.              *)

None == "None"

\* str.strip() with no argument removes these (the ASCII ones that occur here).
Whitespace == {" ", "\n", "\t"}

RECURSIVE lstrip(_)
lstrip(s) == IF s # <<>> /\ Head(s) \in Whitespace THEN lstrip(Tail(s)) ELSE s

RECURSIVE rstrip(_)
rstrip(s) ==
    IF s # <<>> /\ s[Len(s)] \in Whitespace THEN rstrip(SubSeq(s, 1, Len(s) - 1)) ELSE s

strip(s) == rstrip(lstrip(s))

startswith(s, c) == s # <<>> /\ Head(s) = c

\* '\n'.join(lines)
RECURSIVE join(_)
join(lines) ==
    IF lines = <<>> THEN <<>>
    ELSE IF Len(lines) = 1 THEN Head(lines)
    ELSE Head(lines) \o <<"\n">> \o join(Tail(lines))

\* The generator's filter `line for line in self.text if line`.
RECURSIVE nonempty(_)
nonempty(lines) ==
    IF lines = <<>> THEN <<>>
    ELSE IF Head(lines) # <<>> THEN <<Head(lines)>> \o nonempty(Tail(lines))
    ELSE nonempty(Tail(lines))

-----------------------------------------------------------------------------
(* WikiHTMLParser.                                                         *)

skip_tags == {"sup", "span", "table", "style", "script"}

\* Mutant: one parser object shared by every call instead of a new one.
WikiHTMLParser_shared == parser

\* __init__: an empty text list and no current tag.
WikiHTMLParser == [text |-> <<>>, current_tag |-> None]

handle_starttag(p, tag) == [p EXCEPT !.current_tag = tag]

\* Mutant: an end tag clears the current tag.
handle_endtag_reset(p, tag) == [p EXCEPT !.current_tag = None]

\* Not overridden: HTMLParser.handle_endtag does nothing.
handle_endtag(p, tag) == p

\* Mutant: the current tag is not consulted.
handle_data_noskip(p, data) ==
    IF /\ strip(data) # <<>>
       /\ ~startswith(data, "[")
       /\ ~startswith(data, "/")
    THEN [p EXCEPT !.text = Append(@, strip(data))]
    ELSE p

\* Mutant: the run is appended as it came, untrimmed.
handle_data_nostrip(p, data) ==
    IF /\ p.current_tag \notin skip_tags
       /\ strip(data) # <<>>
       /\ ~startswith(data, "[")
       /\ ~startswith(data, "/")
    THEN [p EXCEPT !.text = Append(@, data)]
    ELSE p

handle_data(p, data) ==
    IF /\ p.current_tag \notin skip_tags
       /\ strip(data) # <<>>
       /\ ~startswith(data, "[")
       /\ ~startswith(data, "/")
    THEN [p EXCEPT !.text = Append(@, strip(data))]
    ELSE p

get_text(p) == join(nonempty(p.text))

(* html.parser's scan of well-formed markup: a start tag calls             *)
(* handle_starttag with the lower-case name, an end tag handle_endtag, and *)
(* the characters up to the next tag are one handle_data call.             *)
StartTags == {"<p>", "<b>", "<sup>", "<span>"}
EndTags   == {"</p>", "</b>", "</sup>", "</span>"}
TagName(x) ==
    CASE x \in {"<p>", "</p>"}       -> "p"
      [] x \in {"<b>", "</b>"}       -> "b"
      [] x \in {"<sup>", "</sup>"}   -> "sup"
      [] x \in {"<span>", "</span>"} -> "span"

IsTag(x) == x \in StartTags \cup EndTags

\* The length of the text run rawdata starts with.
RECURSIVE RunLen(_)
RunLen(raw) == IF raw = <<>> \/ IsTag(Head(raw)) THEN 0 ELSE 1 + RunLen(Tail(raw))

\* One iteration of HTMLParser.goahead: the parser after the next handler call.
goahead_step(p, raw) ==
    IF Head(raw) \in StartTags THEN handle_starttag(p, TagName(Head(raw)))
    ELSE IF Head(raw) \in EndTags THEN handle_endtag(p, TagName(Head(raw)))
    ELSE handle_data(p, SubSeq(raw, 1, RunLen(raw)))

\* ... and what is left of rawdata after it.
goahead_rest(raw) ==
    IF IsTag(Head(raw)) THEN Tail(raw) ELSE SubSeq(raw, RunLen(raw) + 1, Len(raw))

\* parser.feed(html_content): every handler call, in document order.
RECURSIVE feed(_, _)
feed(p, raw) == IF raw = <<>> THEN p ELSE feed(goahead_step(p, raw), goahead_rest(raw))

-----------------------------------------------------------------------------
(* WikiAPIAgent.  The network is the environment: a Response says how      *)
(* requests.get / raise_for_status / response.json() ended for one call.   *)

\* WikiAPIAgent.LANGUAGES ("Ukrainska" stands for the Cyrillic display name).
LANGUAGES == ("English" :> "en") @@ ("Ukrainska" :> "uk")

Absent == <<"<absent>">>
NoBody == [object |-> FALSE, extract |-> Absent, error |-> Absent, text |-> Absent]

\* Pages the parse API may return as parse.text.
KyivHtml ==
    <<"<p>", "K", "y", "i", "v", "<sup>", "[", "2", "]", "</sup>",
      " ", "i", "s", " ", "a", " ", "c", "i", "t", "y", ".", "</p>">>
AlphaBetaHtml ==
    <<"<p>", "A", "l", "p", "h", "a", "</p>", "<p>", "B", "e", "t", "a", "</p>">>
Pages == {KyivHtml, AlphaBetaHtml, <<"<b>", "a", "</b>", " ", "b">>, <<"<sup>", "1", "</sup>">>}

Extracts == {<<"K", "y", "i", "v">>, <<"A", "l", "p", "h", "a">>}

\* The decoded JSON bodies: an object with some of the keys extract, error
\* (its info) and parse (its text), or a JSON value that is not an object.
Bodies ==
    {NoBody}
    \cup {[object |-> TRUE, extract |-> x, error |-> Absent, text |-> Absent] :
            x \in Extracts \cup {Absent}}
    \cup {[object |-> TRUE, extract |-> Absent, error |-> <<"The page does not exist.">>,
           text |-> Absent]}
    \cup {[object |-> TRUE, extract |-> Absent, error |-> Absent, text |-> h] : h \in Pages}

\* raises: the class of the exception the request raised, by the first except
\* clause it matches (requests.RequestException, or a json.JSONDecodeError
\* that is not one), or None with the decoded body.
Responses ==
    {[raises |-> e, body |-> NoBody] : e \in {"RequestException", "JSONDecodeError"}}
    \cup {[raises |-> None, body |-> b] : b \in Bodies}

\* str(e)
str(e) ==
    CASE e = "RequestException" -> <<"connection failed">>
      [] e = "JSONDecodeError"  -> <<"Expecting value">>
      [] e = "KeyError"         -> <<"'parse'">>
      [] e = "TypeError"        -> <<"list indices must be integers">>
      [] e = "AttributeError"   -> <<"'list' object has no attribute 'get'">>

\* How a call ends: a returned string, or an exception leaving the function.
\* made holds the parser the call constructed and fed, when it made one.
Return(s) == [raise |-> None, value |-> s, made |-> <<>>]
Raise(e) == [raise |-> e, value |-> <<>>, made |-> <<>>]

get_summary(resp) ==
    IF resp.raises = "RequestException"
    THEN Return(<<"Error fetching summary: ">> \o str(resp.raises))
    ELSE IF resp.raises # None THEN Raise(resp.raises)
    ELSE IF ~resp.body.object THEN Raise("AttributeError")
    ELSE IF resp.body.extract = Absent THEN Return(<<"No summary available.">>)
    ELSE Return(resp.body.extract)

get_full_article(resp) ==
    IF resp.raises = "RequestException"
    THEN Return(<<"Error fetching article: ">> \o str(resp.raises))
    ELSE IF resp.raises = "JSONDecodeError"
    THEN Return(<<"Error parsing response: ">> \o str(resp.raises))
    ELSE IF ~resp.body.object THEN Raise("TypeError")
    ELSE IF resp.body.error # Absent THEN Return(<<"Error: ">> \o resp.body.error)
    ELSE IF resp.body.text = Absent
    THEN Return(<<"Error parsing response: ">> \o str("KeyError"))
    ELSE LET fed == feed(WikiHTMLParser, resp.body.text)
         IN  [raise |-> None, value |-> get_text(fed), made |-> <<fed>>]

-----------------------------------------------------------------------------
(* WikiSearchApp.                                                          *)

READY     == "Ready"
SEARCHING == "Searching..."
SUMMARY   == "Summary retrieved"
FULL      == "Full article retrieved"
ERROR     == "Error occurred"
WARNING   == "Input Required"

\* The topics the user types.
Topics == {<<>>, <<" ">>, <<" ", "\n">>, <<"a">>, <<" ", "a", " ">>}

\* Mutant: insert(END, text) without the delete before it.
display_result_append(content, text) == content \o text

\* display_result: delete(1.0, END), then insert(END, text).
display_result(content, text) == <<>> \o text

\* Mutant: the handler's except clause names requests.RequestException only.
except_RequestException(e) == e = "RequestException"

\* `except Exception` catches every exception class of the model.
except_Exception(e) == e \in {"RequestException", "JSONDecodeError", "KeyError",
                              "TypeError", "AttributeError"}

NoFirst == [html |-> <<"<none>">>, text |-> <<>>, later |-> FALSE]
NoEvent == [op |-> "none", arg |-> <<>>, tag |-> None, len |-> 0]
NoResponse == [raises |-> None, body |-> NoBody]

\* Mutant: the entry's text is tested as typed.
topic_unstripped(entry) == entry

\* topic = self.search_var.get().strip()
topic_of(entry) == strip(entry)

\* The user edits the topic entry.
SetTopic(t) ==
    /\ search_var' = t
    /\ last' = "input"
    /\ UNCHANGED <<language_var, full_article_var, status_var, result_text, calls,
                   dialog, response, outcome, propagated, first, parser, exvars>>

\* The user picks a language in the read-only selector.
SetLanguage(l) ==
    /\ language_var' = l
    /\ last' = "input"
    /\ UNCHANGED <<search_var, full_article_var, status_var, result_text, calls,
                   dialog, response, outcome, propagated, first, parser, exvars>>

\* The user toggles the "Show Full Article" checkbox.
ToggleFullArticle ==
    /\ full_article_var' = ~full_article_var
    /\ last' = "input"
    /\ UNCHANGED <<search_var, language_var, status_var, result_text, calls,
                   dialog, response, outcome, propagated, first, parser, exvars>>

\* perform_search with a blank topic: the warning, and nothing else.
SearchBlank ==
    /\ topic_of(search_var) = <<>>
    /\ dialog' = WARNING
    /\ calls' = <<>>
    /\ response' = NoResponse
    /\ outcome' = Return(<<>>)
    /\ propagated' = None
    /\ last' = "perform_search"
    /\ UNCHANGED <<search_var, language_var, full_article_var, status_var, result_text,
                   first, parser, exvars>>

\* perform_search with a topic: the status, the fetch, the try's two ends,
\* display_result.
SearchTopic(resp) ==
    LET topic == topic_of(search_var)
        language_code == LANGUAGES[language_var]
        r == IF full_article_var THEN get_full_article(resp) ELSE get_summary(resp)
        fn == IF full_article_var THEN "get_full_article" ELSE "get_summary"
    IN  /\ topic # <<>>
        /\ dialog' = None
        /\ calls' = <<[fn |-> fn, topic |-> topic, language |-> language_code]>>
        /\ response' = resp
        /\ outcome' = r
        /\ last' = "perform_search"
        /\ IF r.raise = None
           THEN /\ status_var' = IF full_article_var THEN FULL ELSE SUMMARY
                /\ result_text' = display_result(result_text, r.value)
                /\ propagated' = None
           ELSE IF except_Exception(r.raise)
           THEN /\ status_var' = ERROR
                /\ result_text' = display_result(result_text, <<"Error | Pomylka: ">> \o str(r.raise))
                /\ propagated' = None
           ELSE /\ status_var' = SEARCHING
                /\ result_text' = result_text
                /\ propagated' = r.raise
        /\ parser' = IF r.made = <<>> THEN parser ELSE r.made[1]
        /\ first' = IF r.made = <<>> THEN first
                    ELSE IF first = NoFirst
                    THEN [html |-> resp.body.text, text |-> r.value, later |-> FALSE]
                    ELSE [first EXCEPT !.later = TRUE]
        /\ UNCHANGED <<search_var, language_var, full_article_var, exvars>>

Init ==
    /\ search_var = <<>>
    /\ language_var = "English"
    /\ full_article_var = FALSE
    /\ status_var = READY
    /\ result_text = <<>>
    /\ last = "init"
    /\ calls = <<>>
    /\ dialog = None
    /\ response = NoResponse
    /\ outcome = Return(<<>>)
    /\ propagated = None
    /\ first = NoFirst
    /\ parser = [text |-> <<>>, current_tag |-> None]
    /\ html = <<>>
    /\ rawdata = <<>>
    /\ output = <<>>
    /\ pc = "idle"
    /\ ev = NoEvent

Next ==
    \/ \E t \in Topics : SetTopic(t)
    \/ \E l \in DOMAIN LANGUAGES : SetLanguage(l)
    \/ ToggleFullArticle
    \/ SearchBlank
    \/ \E resp \in Responses : SearchTopic(resp)

Spec == Init /\ [][Next]_vars

-----------------------------------------------------------------------------
(* One parser, one markup string, one handler call per step.               *)

Symbols == {"a", " ", "\n", "[", "/", "<p>", "<sup>", "</sup>"}

RECURSIVE SeqsUpTo(_)
SeqsUpTo(n) ==
    IF n = 0 THEN {<<>>}
    ELSE LET shorter == SeqsUpTo(n - 1)
         IN  shorter \cup {Append(s, x) : s \in {t \in shorter : Len(t) = n - 1}, x \in Symbols}

Markup == SeqsUpTo(MaxLen) \cup {KyivHtml, AlphaBetaHtml}

\* The name of the last start tag among the symbols s, None when it has none.
RECURSIVE LastStartTag(_)
LastStartTag(s) ==
    IF s = <<>> THEN None
    ELSE IF s[Len(s)] \in StartTags THEN TagName(s[Len(s)])
    ELSE LastStartTag(SubSeq(s, 1, Len(s) - 1))

Event(op, arg) ==
    [op |-> op, arg |-> arg, len |-> Len(parser.text),
     tag |-> LastStartTag(SubSeq(html, 1, Len(html) - Len(rawdata)))]

StartTagStep ==
    /\ pc = "feeding" /\ rawdata # <<>> /\ Head(rawdata) \in StartTags
    /\ parser' = goahead_step(parser, rawdata)
    /\ rawdata' = goahead_rest(rawdata)
    /\ ev' = Event("handle_starttag", <<TagName(Head(rawdata))>>)
    /\ UNCHANGED <<appvars, html, output, pc>>

EndTagStep ==
    /\ pc = "feeding" /\ rawdata # <<>> /\ Head(rawdata) \in EndTags
    /\ parser' = goahead_step(parser, rawdata)
    /\ rawdata' = goahead_rest(rawdata)
    /\ ev' = Event("handle_endtag", <<TagName(Head(rawdata))>>)
    /\ UNCHANGED <<appvars, html, output, pc>>

DataStep ==
    /\ pc = "feeding" /\ rawdata # <<>> /\ ~IsTag(Head(rawdata))
    /\ parser' = goahead_step(parser, rawdata)
    /\ rawdata' = goahead_rest(rawdata)
    /\ ev' = Event("handle_data", SubSeq(rawdata, 1, RunLen(rawdata)))
    /\ UNCHANGED <<appvars, html, output, pc>>

GetText ==
    /\ pc = "feeding" /\ rawdata = <<>>
    /\ output' = get_text(parser)
    /\ pc' = "done"
    /\ ev' = Event("get_text", <<>>)
    /\ UNCHANGED <<appvars, parser, html, rawdata>>

InitExtract ==
    /\ search_var = <<>>
    /\ language_var = "English"
    /\ full_article_var = FALSE
    /\ status_var = READY
    /\ result_text = <<>>
    /\ last = "init"
    /\ calls = <<>>
    /\ dialog = None
    /\ response = NoResponse
    /\ outcome = Return(<<>>)
    /\ propagated = None
    /\ first = NoFirst
    /\ html \in Markup
    /\ rawdata = html
    /\ parser = WikiHTMLParser
    /\ output = <<>>
    /\ pc = "feeding"
    /\ ev = NoEvent

NextExtract == StartTagStep \/ EndTagStep \/ DataStep \/ GetText

SpecExtract == InitExtract /\ [][NextExtract]_vars

-----------------------------------------------------------------------------
(* The claims.  C1, C5, C7, C8 and C10 are about the window and are        *)
(* checked under Spec; C2, C3, C4, C6 and C9 are about the extractor and   *)
(* are checked under SpecExtract.                                          *)

SearchedTopic == last = "perform_search" /\ calls # <<>>

\* C1: after a summary-mode search whose request raised
\* requests.RequestException, the result pane starts with
\* "Error fetching summary:" and the status line reads "Error occurred".
C1_SummaryFailureShown ==
    (SearchedTopic /\ calls[1].fn = "get_summary" /\ response.raises = "RequestException")
        => /\ result_text # <<>> /\ Head(result_text) = "Error fetching summary: "
           /\ status_var = ERROR

\* C2 as stated: the extractor turns <p>Kyiv<sup>[2]</sup> is a city.</p>
\* into "Kyiv\nis a city.".
C2_KyivKeepsTail ==
    (pc = "done" /\ html = KyivHtml)
        => output = <<"K", "y", "i", "v", "\n",
                      "i", "s", " ", "a", " ", "c", "i", "t", "y", ".">>

\* C2 as amended: the extractor turns <p>Kyiv<sup>[2]</sup> is a city.</p>
\* into "Kyiv": the run after </sup> still has sup as its last start tag and
\* is dropped with the footnote.
C2_KyivOnly == (pc = "done" /\ html = KyivHtml) => output = <<"K", "y", "i", "v">>

C2_Witness == pc = "done" /\ html = KyivHtml /\ ev.op = "get_text"

BracketOrSlash(s) == startswith(s, "[") \/ startswith(s, "/")

\* C3: a text run whose trimmed form begins with "[" or "/" is never
\* appended to the parser's text, whatever the current tag.
C3_TrimmedPrefixDropped ==
    (ev.op = "handle_data" /\ BracketOrSlash(strip(ev.arg))) => Len(parser.text) = ev.len

\* C4: a text run whose most recently seen start tag is one of sup, span,
\* table, style, script is never appended to the parser's text.
C4_SkippedTagDropped ==
    (ev.op = "handle_data" /\ ev.tag \in {"sup", "span", "table", "style", "script"})
        => Len(parser.text) = ev.len

\* A run that nothing but its tag keeps out, met after an end tag.
C4_Witness ==
    /\ ev.op = "handle_data" /\ ev.tag = "sup"
    /\ strip(ev.arg) # <<>> /\ ~BracketOrSlash(ev.arg)
    /\ Len(html) - Len(rawdata) - Len(ev.arg) > 1
    /\ html[Len(html) - Len(rawdata) - Len(ev.arg)] = "</sup>"

\* C5: perform_search with an empty or whitespace-only topic shows the
\* warning, calls neither get_summary nor get_full_article, and leaves the
\* status line and the result pane as they were.
C5_BlankTopicFrame ==
    [][(strip(search_var) = <<>> /\ last' = "perform_search")
          => /\ dialog' = WARNING
             /\ calls' = <<>>
             /\ status_var' = status_var
             /\ result_text' = result_text]_vars

\* A whitespace-only topic submitted over a pane that shows an earlier result.
C5_Witness ==
    /\ last = "perform_search" /\ search_var # <<>> /\ strip(search_var) = <<>>
    /\ dialog = WARNING /\ result_text # <<>> /\ status_var # READY

NoTags(s) == \A i \in 1..Len(s) : ~IsTag(s[i])

\* C6 as stated: for markup with no tags the output is the trimmed input.
C6_TaglessIsTrimmed == (pc = "done" /\ NoTags(html)) => output = strip(html)

\* C6 as amended: for markup with no tags, the output is the trimmed input
\* when that is non-empty and does not begin with "[" or "/", and it is
\* empty when the trimmed input is empty or the input begins with "[" or "/".
C6_TaglessIsTrimmedUnlessMarked ==
    (pc = "done" /\ NoTags(html))
        => /\ (strip(html) # <<>> /\ ~BracketOrSlash(strip(html))) => output = strip(html)
           /\ (strip(html) = <<>> \/ BracketOrSlash(html)) => output = <<>>

\* Tagless markup with whitespace around its text, trimmed to one kept run.
C6_Witness ==
    /\ pc = "done" /\ NoTags(html) /\ Len(html) > 1
    /\ output # <<>> /\ output # html /\ output = strip(html)

\* C7: an exception that leaves the fetch of a submitted search is caught
\* in perform_search: none leaves the handler, the result pane shows
\* "Error | ...: " followed by the exception's text, and the status line
\* reads "Error occurred".
C7_FaultCaught ==
    (SearchedTopic /\ outcome.raise # None)
        => /\ propagated = None
           /\ result_text = <<"Error | Pomylka: ">> \o str(outcome.raise)
           /\ status_var = ERROR

C7_Witness ==
    /\ SearchedTopic /\ outcome.raise = "TypeError"
    /\ calls[1].fn = "get_full_article" /\ status_var = ERROR

\* C8: a get_full_article call that extracts the markup of the first
\* extracting call returns what that first call returned.
C8_SameAsFirstCall ==
    (SearchedTopic /\ outcome.made # <<>> /\ response.body.text = first.html)
        => outcome.value = first.text

\* A later call on the first call's markup, which yields text.
C8_Witness ==
    /\ SearchedTopic /\ outcome.made # <<>> /\ first.later
    /\ response.body.text = first.html /\ first.text # <<>>

\* The lines of s: s split at "\n"; the empty string has no lines.
RECURSIVE split(_, _)
split(s, line) ==
    IF s = <<>> THEN <<line>>
    ELSE IF Head(s) = "\n" THEN <<line>> \o split(Tail(s), <<>>)
    ELSE split(Tail(s), Append(line, Head(s)))

Lines(s) == IF s = <<>> THEN <<>> ELSE split(s, <<>>)

\* C9: every line of the output is non-empty and has no leading or
\* trailing whitespace.
C9_LinesTrimmed ==
    pc = "done" =>
        \A i \in 1..Len(Lines(output)) :
            Lines(output)[i] # <<>> /\ strip(Lines(output)[i]) = Lines(output)[i]

\* The string the last submission produced for display.
Produced ==
    IF outcome.raise = None THEN outcome.value
    ELSE <<"Error | Pomylka: ">> \o str(outcome.raise)

\* C10: after perform_search returns from a submission with a non-blank
\* topic, the result pane holds exactly the string that submission
\* produced and the status line is not "Searching...".
C10_PaneReplaced ==
    (last = "perform_search" /\ strip(search_var) # <<>>)
        => result_text = Produced /\ status_var # SEARCHING

\* A summary shown after an earlier submission had filled the pane with a page.
C10_Witness ==
    /\ SearchedTopic /\ calls[1].fn = "get_summary" /\ first.text # <<>>
    /\ result_text \in Extracts

====
